---- MODULE Spec2Model ----
(***************************************************************************)
(* The relation store QBAFARelations of src/src/relations.c: a set of      *)
(* (agent, patient) tuples with the two dictionaries agent -> patients     *)
(* and patient -> agents, its initializer, its queries and its mutators.   *)
(*                                                                         *)
(* A Python set is a TLA+ set.  A Python dict of sets is a record          *)
(* [keys, val]: keys is the set of keys present and val[k] the set stored  *)
(* under k (val[k] is {} for an absent key).  An item of a collection is   *)
(* a record [kind, elems]: kind "tuple" for a tuple of the entities elems, *)
(* "str" for a hashable object that is no tuple, "list" for an unhashable  *)
(* object.                                                                 *)
(*                                                                         *)
(* The functions on sets of src/include/relations.h (PySet_IsDisjoint,     *)
(* PySet_IsSubset, PySet_Union, PySet_Intersection, PySet_Difference,      *)
(* PySet_SubSets, PyList_ContainsSubset) are operators that walk the sets  *)
(* in an iteration order rank, as the loops of the code do.                *)
(***************************************************************************)
EXTENDS Integers, Sequences, FiniteSets, TLC

VARIABLES self, phase, call, pre, reinits, failures, alg, writer, run

vars == <<self, phase, call, pre, reinits, failures, alg, writer, run>>

\* Number of distinct argument entities (QBAFArgument objects).
NumEntities == 2
\* Longest collection handed to the initializer.
MaxLen == 2
\* Most calls of the initializer on a live object in one run.
MaxReinits == 1
\* Most calls in one run during which a CPython call fails.
MaxFailures == 1

Entities == 1..NumEntities
\* Stands for "no argument" in the record of a call.
NoEntity == 0
\* An object given as agent or patient whose hash function raises TypeError.
Unhashable == 0 - 1

Range(seq) == {seq[i] : i \in DOMAIN seq}

\* Every order in which the elements of a set can be iterated.
Orders(S) ==
    {o \in [1..Cardinality(S) -> S] : \A i, j \in 1..Cardinality(S) : o[i] = o[j] => i = j}

----------------------------------------------------------------------------
(* Items of a collection *)

PyTuple_Pack(agent, patient) == [kind |-> "tuple", elems |-> <<agent, patient>>]

Pairs == {PyTuple_Pack(a, p) : a \in Entities, p \in Entities}

\* A 1-tuple, a 3-tuple, a string and a list: none is a tuple of size 2.
Malformed ==
    { [kind |-> "tuple", elems |-> <<1>>],
      [kind |-> "tuple", elems |-> <<1, 1, 1>>],
      [kind |-> "str", elems |-> <<>>],
      [kind |-> "list", elems |-> <<1, 1>>] }

Items == Pairs \cup Malformed

\* PySet_New(iterable) raises TypeError on an item that cannot be hashed; the
\* hash of a tuple is computed from the hashes of its elements.
Hashable(item) ==
    /\ item.kind # "list"
    /\ item.kind = "tuple" => \A i \in DOMAIN item.elems : item.elems[i] # Unhashable

\* PyTuple_Check(item) && PyTuple_Size(item) == 2
IsPair(item) == item.kind = "tuple" /\ Len(item.elems) = 2

\* The argument of the initializer: a set, a list, another object (a tuple of
\* items), or no argument at all.
Inputs ==
    { [kind |-> k, items |-> s] :
        k \in {"list", "tuple"},
        s \in UNION {[1..n -> Items] : n \in 0..MaxLen} }
    \cup
    { [kind |-> "set", items |-> s] :
        s \in { t \in UNION {[1..n -> Items] : n \in 0..MaxLen} :
                  /\ \A i \in DOMAIN t : Hashable(t[i])
                  /\ \A i, j \in DOMAIN t : t[i] = t[j] => i = j } }
    \cup
    { [kind |-> "missing", items |-> <<>>] }

NoInput == [kind |-> "none", items |-> <<>>]

----------------------------------------------------------------------------
(* Dictionaries of buckets *)

PyDict_New == [keys |-> {}, val |-> [e \in Entities |-> {}]]

\* The set stored under key, the empty set when the key is absent.
Bucket(dict, key) == IF key \in dict.keys THEN dict.val[key] ELSE {}

\* PyDict_GetItemDefaultPySet_New without the bucket insertion: the new set
\* is returned but never stored under the key.
GetItemDefault_NotStored(dict, key) == dict

\* PyDict_GetItemDefaultPySet_New without the PyDict_Contains test: a new
\* empty set is stored under the key every time.
GetItemDefault_AlwaysNew(dict, key) ==
    [keys |-> dict.keys \cup {key}, val |-> [dict.val EXCEPT ![key] = {}]]

\* The dictionary after the call: the key maps to its set, a new empty set
\* when the key was absent.  The set returned is the one stored under key.
PyDict_GetItemDefaultPySet_New(dict, key) ==
    IF key \notin dict.keys
    THEN [keys |-> dict.keys \cup {key}, val |-> [dict.val EXCEPT ![key] = {}]]
    ELSE dict

\* PySet_Add(set, member) on the set borrowed from the dictionary.
BucketAdd(dict, key, member) ==
    IF key \in dict.keys
    THEN [dict EXCEPT !.val[key] = @ \cup {member}]
    ELSE dict

\* PySet_Discard(set, member) on the set borrowed from the dictionary.
BucketDiscard(dict, key, member) == [dict EXCEPT !.val[key] = @ \ {member}]

----------------------------------------------------------------------------
(* The object *)

\* Stands for the object of a call that produced none.
NoObject == [relations |-> {}, agent_patients |-> PyDict_New, patient_agents |-> PyDict_New]

\* tp_alloc through the type pointer, then an empty set and two empty dicts.
\* type is "QBAFARelationsType" or "NULL"; the result is [object, outcome].
QBAFARelations_new(type) ==
    IF type = "NULL"
    THEN [object |-> NoObject, outcome |-> "crash"]
    ELSE [object |-> [relations |-> {},
                      agent_patients |-> PyDict_New,
                      patient_agents |-> PyDict_New],
          outcome |-> "ok"]

Result(s, outcome) == [store |-> s, outcome |-> outcome]

\* The steps of a handler at which a CPython call can report a failure
\* (allocation, hashing or comparison); "none" is a run without failure.
InitFailPoints == {"setNew", "getIter", "apGet", "apAdd", "paGet", "paAdd"}
AddFailPoints == {"pack", "contains", "relAdd", "apGet", "apAdd", "paGet", "paAdd"}
RemoveFailPoints == {"pack", "contains", "relDiscard", "apDiscard", "paDiscard"}

----------------------------------------------------------------------------
(* QBAFARelations_init *)

\* The loop over the iterator of self->relations.  order is the iteration
\* order of the set, i the position reached; step f fails at position at.
RECURSIVE InitLoop(_, _, _, _, _)
InitLoop(s, order, i, f, at) ==
    IF i > Len(order) THEN Result(s, "ok")
    ELSE
      LET item == order[i] IN
      IF ~IsPair(item) THEN Result(s, "TypeError")
      ELSE
        LET agent == item.elems[1]
            patient == item.elems[2]
            fail(step) == at = i /\ f = step
            s1 == [s EXCEPT !.agent_patients = PyDict_GetItemDefaultPySet_New(@, agent)]
            s2 == [s1 EXCEPT !.agent_patients = BucketAdd(@, agent, patient)]
            s3 == [s2 EXCEPT !.patient_agents = PyDict_GetItemDefaultPySet_New(@, patient)]
            s4 == [s3 EXCEPT !.patient_agents = BucketAdd(@, patient, agent)]
        IN  IF fail("apGet") THEN Result(s, "error")
            ELSE IF fail("apAdd") THEN Result(s1, "error")
            ELSE IF fail("paGet") THEN Result(s2, "error")
            ELSE IF fail("paAdd") THEN Result(s3, "error")
            ELSE InitLoop(s4, order, i + 1, f, at)

\* The initializer that never stores the new set in self->relations.
Init_KeepsOldRelations(s, input, order, f, at) ==
    IF input.kind \notin {"set", "list"} THEN Result(s, "TypeError")
    ELSE InitLoop(s, order, 1, f, at)

QBAFARelations_init(s, input, order, f, at) ==
    IF input.kind = "missing" THEN Result(s, "TypeError")
    ELSE IF input.kind \notin {"set", "list"} THEN Result(s, "TypeError")
    ELSE IF \E i \in DOMAIN input.items : ~Hashable(input.items[i])
      THEN Result(s, "TypeError")
    ELSE IF f = "setNew" THEN Result(s, "error")
    ELSE
      LET s1 == [s EXCEPT !.relations = Range(input.items)] IN
      IF f = "getIter" THEN Result(s1, "error")
      ELSE InitLoop(s1, order, 1, f, at)

\* The iteration orders of the set the initializer builds from input.
InitOrders(input) ==
    IF input.kind \in {"set", "list"} /\ \A i \in DOMAIN input.items : Hashable(input.items[i])
    THEN Orders(Range(input.items))
    ELSE {<<>>}

----------------------------------------------------------------------------
(* Object identity of the sets the store makes *)

\* A call that hands back the set it was given instead of a new one.
PySet_SameObject(items) == [value |-> items, fresh |-> FALSE]

\* PySet_New(iterable): a new set object that holds the items of iterable;
\* fresh says that it is no object the caller has.
PySet_New(items) == [value |-> items, fresh |-> TRUE]

\* The getter of the attribute relations.
QBAFArgument_getrelations(s) == PySet_New(s.relations)

\* The object the initializer stores in self->relations, made from the
\* items of the caller's collection.
InitRelationsObject(input) == PySet_New(Range(input.items))

----------------------------------------------------------------------------
(* Queries *)

QBAFARelations___len__(s) == Cardinality(s.relations)

\* __contains__ that takes a key it cannot hash for a key that is absent.
Contains_IgnoresHashError(s, key) ==
    IF ~IsPair(key) THEN [value |-> FALSE, outcome |-> "TypeError"]
    ELSE [value |-> key \in s.relations, outcome |-> "ok"]

QBAFARelations___contains__(s, key) ==
    IF ~IsPair(key) THEN [value |-> FALSE, outcome |-> "TypeError"]
    \* PySet_Contains returns -1 with the TypeError of the hash function
    ELSE IF ~Hashable(key) THEN [value |-> FALSE, outcome |-> "TypeError"]
    ELSE [value |-> key \in s.relations, outcome |-> "ok"]

QBAFARelations_contains(s, agent, patient) ==
    QBAFARelations___contains__(s, PyTuple_Pack(agent, patient))

\* patients() that reads the dictionary of the other direction.
Patients_WrongDict(s, agent) ==
    IF agent \in s.patient_agents.keys THEN s.patient_agents.val[agent] ELSE {}

\* The set whose iteration fills the list patients(agent) returns.
QBAFARelations_patients(s, agent) ==
    IF agent \in s.agent_patients.keys THEN s.agent_patients.val[agent] ELSE {}

\* The set whose iteration fills the list agents(patient) returns.
QBAFARelations_agents(s, patient) ==
    IF patient \in s.patient_agents.keys THEN s.patient_agents.val[patient] ELSE {}

----------------------------------------------------------------------------
(* QBAFARelations_add *)

\* add() that reports an error when the relation is already there.
Add_ErrorWhenPresent(s, agent, patient, f) ==
    LET tuple == PyTuple_Pack(agent, patient) IN
    IF tuple \in s.relations THEN Result(s, "error")
    ELSE Result(
           [relations |-> s.relations \cup {tuple},
            agent_patients |->
                BucketAdd(PyDict_GetItemDefaultPySet_New(s.agent_patients, agent), agent, patient),
            patient_agents |->
                BucketAdd(PyDict_GetItemDefaultPySet_New(s.patient_agents, patient), patient, agent)],
           "ok")

QBAFARelations_add(s, agent, patient, f) ==
    LET tuple == PyTuple_Pack(agent, patient)
        s1 == [s EXCEPT !.relations = @ \cup {tuple}]
        s2 == [s1 EXCEPT !.agent_patients = PyDict_GetItemDefaultPySet_New(@, agent)]
        s3 == [s2 EXCEPT !.agent_patients = BucketAdd(@, agent, patient)]
        s4 == [s3 EXCEPT !.patient_agents = PyDict_GetItemDefaultPySet_New(@, patient)]
        s5 == [s4 EXCEPT !.patient_agents = BucketAdd(@, patient, agent)]
    IN  IF f = "pack" THEN Result(s, "error")
        ELSE IF f = "contains" THEN Result(s, "error")
        \* PySet_Contains returns -1 with the TypeError of the hash function
        ELSE IF ~Hashable(tuple) THEN Result(s, "TypeError")
        ELSE IF tuple \in s.relations THEN Result(s, "ok")
        ELSE IF f = "relAdd" THEN Result(s, "error")
        ELSE IF f = "apGet" THEN Result(s1, "error")
        ELSE IF f = "apAdd" THEN Result(s2, "error")
        ELSE IF f = "paGet" THEN Result(s3, "error")
        ELSE IF f = "paAdd" THEN Result(s4, "error")
        ELSE Result(s5, "ok")

----------------------------------------------------------------------------
(* QBAFARelations_remove *)

\* remove() without the early return for a relation that is not there.
Remove_NoEarlyReturn(s, agent, patient, f) ==
    LET tuple == PyTuple_Pack(agent, patient)
        s1 == [s EXCEPT !.relations = @ \ {tuple}]
        s2 == [s1 EXCEPT !.agent_patients = BucketDiscard(@, agent, patient)]
        s3 == [s2 EXCEPT !.patient_agents = BucketDiscard(@, patient, agent)]
    IN  IF agent \notin s1.agent_patients.keys THEN Result(s1, "error")
        ELSE IF patient \notin s2.patient_agents.keys THEN Result(s2, "error")
        ELSE Result(s3, "ok")

\* remove() that never touches patient_agents.
Remove_KeepsPatientAgents(s, agent, patient, f) ==
    LET tuple == PyTuple_Pack(agent, patient)
        s1 == [s EXCEPT !.relations = @ \ {tuple}]
        s2 == [s1 EXCEPT !.agent_patients = BucketDiscard(@, agent, patient)]
    IN  IF tuple \notin s.relations THEN Result(s, "ok")
        ELSE IF agent \notin s1.agent_patients.keys THEN Result(s1, "error")
        ELSE Result(s2, "ok")

\* remove() that empties the bucket of the agent.
Remove_ClearsAgentBucket(s, agent, patient, f) ==
    LET tuple == PyTuple_Pack(agent, patient)
        s1 == [s EXCEPT !.relations = @ \ {tuple}]
        s2 == [s1 EXCEPT !.agent_patients.val[agent] = {}]
        s3 == [s2 EXCEPT !.patient_agents = BucketDiscard(@, patient, agent)]
    IN  IF tuple \notin s.relations THEN Result(s, "ok") ELSE Result(s3, "ok")

\* remove() that deletes a bucket once it is empty.
Remove_PrunesEmptyBuckets(s, agent, patient, f) ==
    LET tuple == PyTuple_Pack(agent, patient)
        s1 == [s EXCEPT !.relations = @ \ {tuple}]
        s2 == [s1 EXCEPT !.agent_patients = BucketDiscard(@, agent, patient)]
        s3 == [s2 EXCEPT !.patient_agents = BucketDiscard(@, patient, agent)]
        Prune(dict) == [dict EXCEPT !.keys = {k \in @ : dict.val[k] # {}}]
    IN  IF tuple \notin s.relations THEN Result(s, "ok")
        ELSE Result([s3 EXCEPT !.agent_patients = Prune(@), !.patient_agents = Prune(@)], "ok")

QBAFARelations_remove(s, agent, patient, f) ==
    LET tuple == PyTuple_Pack(agent, patient)
        s1 == [s EXCEPT !.relations = @ \ {tuple}]
        s2 == [s1 EXCEPT !.agent_patients = BucketDiscard(@, agent, patient)]
        s3 == [s2 EXCEPT !.patient_agents = BucketDiscard(@, patient, agent)]
    IN  IF f = "pack" THEN Result(s, "error")
        ELSE IF f = "contains" THEN Result(s, "error")
        \* PySet_Contains returns -1 with the TypeError of the hash function
        ELSE IF ~Hashable(tuple) THEN Result(s, "TypeError")
        ELSE IF tuple \notin s.relations THEN Result(s, "ok")
        ELSE IF f = "relDiscard" THEN Result(s, "error")
        \* PyDict_GetItem returns NULL for a key that is absent
        ELSE IF agent \notin s1.agent_patients.keys THEN Result(s1, "error")
        ELSE IF f = "apDiscard" THEN Result(s1, "error")
        ELSE IF patient \notin s2.patient_agents.keys THEN Result(s2, "error")
        ELSE IF f = "paDiscard" THEN Result(s2, "error")
        ELSE Result(s3, "ok")

----------------------------------------------------------------------------
(* QBAFARelations_copy *)

\* copy() passes NULL as the type to QBAFARelations_new, which reads
\* type->tp_alloc before anything else: the process dies there.  Past that
\* call the initializer is handed a C array where it expects the argument
\* tuple, and PyArg_ParseTupleAndKeywords reads the type of that "object"
\* through the NULL the array ends with.  No path returns a store.
QBAFARelations_copy(s) ==
    LET made == QBAFARelations_new("NULL") IN
    IF made.outcome # "ok" THEN [object |-> NoObject, outcome |-> made.outcome]
    ELSE [object |-> NoObject, outcome |-> "crash"]

----------------------------------------------------------------------------
(* Reference counts of the entities *)

\* How often e occurs in the arguments (agent, patient) of a call.
Occurs(e, agent, patient) ==
    (IF e = agent THEN 1 ELSE 0) + (IF e = patient THEN 1 ELSE 0)

\* The references to e owned by the two dictionaries and their buckets: one
\* for each dictionary that has e as a key (PyDict_SetItem) and one for each
\* bucket that has e as a member (PySet_Add, given up by PySet_Discard).
HeldDirect(s, e) ==
    (IF e \in s.agent_patients.keys THEN 1 ELSE 0)
    + (IF e \in s.patient_agents.keys THEN 1 ELSE 0)
    + Cardinality({a \in Entities : e \in Bucket(s.agent_patients, a)})
    + Cardinality({p \in Entities : e \in Bucket(s.patient_agents, p)})

\* The change contains(agent, patient) makes to the reference count of each
\* entity: the handler takes a reference to both arguments, PyTuple_Pack
\* takes another one for the tuple, and the handler returns without
\* releasing the tuple or the arguments.
ContainsRefs(s, agent, patient) ==
    [e \in Entities |->
        Occurs(e, agent, patient)        \* Py_INCREF, lines 439-440
        + Occurs(e, agent, patient)]     \* the tuple of line 441, never released

\* The change add(agent, patient) makes, f the CPython call that fails.  The
\* tuple is released when it is not stored; once stored it keeps the
\* handler's reference besides the one of the set.
AddRefs(s, agent, patient, f) ==
    LET r == QBAFARelations_add(s, agent, patient, f)
        stored == /\ PyTuple_Pack(agent, patient) \notin s.relations
                  /\ f \notin {"pack", "contains", "relAdd"}
    IN  [e \in Entities |->
            (IF f = "pack" THEN 0 ELSE Occurs(e, agent, patient))    \* 477-478 (481-482)
            + (IF stored THEN Occurs(e, agent, patient) ELSE 0)      \* the tuple of 479
            + (HeldDirect(r.store, e) - HeldDirect(s, e))            \* keys and members
            + (IF stored /\ f \notin {"apGet", "apAdd"} /\ e = patient THEN 1 ELSE 0)   \* 507
            + (IF stored /\ f = "none" /\ e = agent THEN 1 ELSE 0)]                      \* 518

\* The change remove(agent, patient) makes.  The tuple packed for the lookup
\* is released on every path.  The tuple that was stored loses the reference
\* of the set; it is freed, and gives up its references to the entities,
\* unless it is pinned: add() has left a reference on it, or the caller
\* still holds the collection it came from.
RemoveRefs(s, agent, patient, f, pinned) ==
    LET r == QBAFARelations_remove(s, agent, patient, f)
        discarded == /\ PyTuple_Pack(agent, patient) \in s.relations
                     /\ f \notin {"pack", "contains", "relDiscard"}
    IN  [e \in Entities |->
            (IF f = "pack" THEN 0 ELSE Occurs(e, agent, patient))    \* 547-548 (551-552)
            - (IF discarded /\ ~pinned THEN Occurs(e, agent, patient) ELSE 0)   \* 568
            + (HeldDirect(r.store, e) - HeldDirect(s, e))]           \* 580, 589

\* patients(agent) and agents(patient): the references PyIter_Next returns
\* are handed over to the list (PyList_SET_ITEM) and go with it when the
\* caller drops the list.
ListRefs(s, key) == [e \in Entities |-> 0]

----------------------------------------------------------------------------
(* Set algebra: the functions on sets of hashable objects *)

\* The objects the sets hold, and the sizes asked of PySet_SubSets.
NumElems == 3
MaxK == 4
Elems == 1..NumElems
Sizes == (0 - MaxK)..MaxK

\* The order in which a set hands out its items: rank[x] is the position of
\* x in the hash table.  The code fixes no order; every rank is possible.
Ranks == {rank \in [Elems -> 1..NumElems] : \A x, y \in Elems : rank[x] = rank[y] => x = y}

\* The first item of a non-empty set in iteration order; PySet_Pop takes it.
PySet_Pop(set, rank) == CHOOSE x \in set : \A y \in set : rank[x] <= rank[y]

RECURSIVE PyIter(_, _)
\* The items PyObject_GetIter / PyIter_Next produce for a set, in order.
PyIter(set, rank) ==
    IF set = {} THEN <<>>
    ELSE LET item == PySet_Pop(set, rank) IN <<item>> \o PyIter(set \ {item}, rank)

RECURSIVE IsDisjointLoop(_, _, _)
\* The while loop of PySet_IsDisjoint from the i-th item on.
IsDisjointLoop(items, i, set2) ==
    IF i > Len(items) THEN 1
    ELSE IF items[i] \in set2 THEN 0
    ELSE IsDisjointLoop(items, i + 1, set2)

\* PySet_IsDisjoint that answers after looking at one item only.
IsDisjoint_FirstItemOnly(set1, set2, rank) ==
    LET items == PyIter(set1, rank) IN
    IF items # <<>> /\ items[1] \in set2 THEN 0 ELSE 1

PySet_IsDisjoint(set1, set2, rank) ==
    LET swap == Cardinality(set1) > Cardinality(set2)
        s1 == IF swap THEN set2 ELSE set1
        s2 == IF swap THEN set1 ELSE set2
    IN  IsDisjointLoop(PyIter(s1, rank), 1, s2)

RECURSIVE IsSubsetLoop(_, _, _)
\* The while loop of PySet_IsSubset from the i-th item on.
IsSubsetLoop(items, i, set2) ==
    IF i > Len(items) THEN 1
    ELSE IF items[i] \notin set2 THEN 0
    ELSE IsSubsetLoop(items, i + 1, set2)

\* PySet_IsSubset that iterates the second set.
IsSubset_IteratesSet2(set1, set2, rank) == IsSubsetLoop(PyIter(set2, rank), 1, set1)

PySet_IsSubset(set1, set2, rank) == IsSubsetLoop(PyIter(set1, rank), 1, set2)

RECURSIVE AddLoop(_, _, _)
\* PySet_Add(new, item) for the items from the i-th on.
AddLoop(items, i, new) ==
    IF i > Len(items) THEN new ELSE AddLoop(items, i + 1, new \cup {items[i]})

\* PySet_Union that starts from an empty set instead of a copy of set2.
Union_NoCopy(set1, set2, rank) ==
    LET swap == Cardinality(set1) > Cardinality(set2)
        s1 == IF swap THEN set2 ELSE set1
    IN  AddLoop(PyIter(s1, rank), 1, {})

PySet_Union(set1, set2, rank) ==
    LET swap == Cardinality(set1) > Cardinality(set2)
        s1 == IF swap THEN set2 ELSE set1
        s2 == IF swap THEN set1 ELSE set2
    IN  AddLoop(PyIter(s1, rank), 1, s2)

RECURSIVE FilterLoop(_, _, _, _, _)
\* The while loop of PySet_Intersection (keep = TRUE) and PySet_Difference
\* (keep = FALSE): items[i] goes into new when its membership in set2 is keep.
FilterLoop(items, i, set2, keep, new) ==
    IF i > Len(items) THEN new
    ELSE FilterLoop(items, i + 1, set2, keep,
                    IF (items[i] \in set2) = keep THEN new \cup {items[i]} ELSE new)

PySet_Intersection(set1, set2, rank) ==
    LET swap == Cardinality(set1) > Cardinality(set2)
        s1 == IF swap THEN set2 ELSE set1
        s2 == IF swap THEN set1 ELSE set2
    IN  FilterLoop(PyIter(s1, rank), 1, s2, TRUE, {})

PySet_Difference(set1, set2, rank) == FilterLoop(PyIter(set1, rank), 1, set2, FALSE, {})

RECURSIVE PySet_SubSets(_, _, _)
RECURSIVE SubSetsLoop(_, _, _, _)
RECURSIVE SubSetsLoop_NoBreak(_, _, _, _)

\* The list of one-item sets the branch size == 1 fills, in iteration order.
Singletons(set, rank) ==
    LET items == PyIter(set, rank) IN [index \in 1..Len(items) |-> {items[index]}]

\* The inner while loop: item is added to every set of subset_list and the
\* set is appended to list.
AppendWithItem(list, subset_list, item) ==
    list \o [index \in 1..Len(subset_list) |-> subset_list[index] \cup {item}]

\* The outer while loop of PySet_SubSets on what is left in myset.
SubSetsLoop(myset, size, rank, list) ==
    IF Cardinality(myset) = 0 THEN list
    ELSE LET item == PySet_Pop(myset, rank)
             rest == myset \ {item}
             subset_list == PySet_SubSets(rest, size - 1, rank)
             list2 == AppendWithItem(list, subset_list, item)
         IN  IF Cardinality(rest) < size THEN list2
             ELSE SubSetsLoop(rest, size, rank, list2)

\* The outer loop without its break.
SubSetsLoop_NoBreak(myset, size, rank, list) ==
    IF Cardinality(myset) = 0 THEN list
    ELSE LET item == PySet_Pop(myset, rank)
             rest == myset \ {item}
             subset_list == PySet_SubSets(rest, size - 1, rank)
         IN  SubSetsLoop_NoBreak(rest, size, rank, AppendWithItem(list, subset_list, item))

\* PySet_SubSets whose outer loop never breaks.
SubSets_NoBreak(set, size, rank) ==
    IF Cardinality(set) = 0 THEN <<{}>>
    ELSE IF size = 1 THEN Singletons(set, rank)
    ELSE SubSetsLoop_NoBreak(set, size, rank, <<>>)

\* PySet_SubSets without the branch for the empty set.
SubSets_NoEmptyBranch(set, size, rank) ==
    IF size = 1 THEN Singletons(set, rank)
    ELSE SubSetsLoop(set, size, rank, <<>>)

\* The list built when size <= 0 (lines 388-394) is not returned and nothing
\* refers to it afterwards: execution goes on to the test size == 1 and to
\* the loop.
PySet_SubSets(set, size, rank) ==
    IF Cardinality(set) = 0 THEN <<{}>>
    ELSE IF size = 1 THEN Singletons(set, rank)
    ELSE SubSetsLoop(set, size, rank, <<>>)

RECURSIVE ContainsSubsetLoop(_, _, _, _)
\* The while loop of PyList_ContainsSubset from the i-th set on.
ContainsSubsetLoop(list, i, superset, rank) ==
    IF i > Len(list) THEN 0
    ELSE IF PySet_IsSubset(list[i], superset, rank) = 1 THEN 1
    ELSE ContainsSubsetLoop(list, i + 1, superset, rank)

\* PyList_ContainsSubset that looks at the first set of the list only.
ContainsSubset_FirstSetOnly(list, superset, rank) ==
    IF list # <<>> /\ PySet_IsSubset(list[1], superset, rank) = 1 THEN 1 ELSE 0

PyList_ContainsSubset(list, superset, rank) == ContainsSubsetLoop(list, 1, superset, rank)

----------------------------------------------------------------------------
(* The set functions on objects *)

\* The heap is the sequence of the set objects there are; an object is known
\* by its position, and a new object gets the next position.

\* PySet_New(NULL) and PySet_New(set): a new object with the given items.
HeapNew(heap, items) == [heap |-> Append(heap, items), id |-> Len(heap) + 1]

\* PySet_Add(set, item) on the object id.
HeapAdd(heap, id, item) == [heap EXCEPT ![id] = @ \cup {item}]

RECURSIVE HeapAddEach(_, _, _)
\* A while loop over an iterator that adds every item it gets to the object id.
HeapAddEach(heap, id, items) ==
    IF items = <<>> THEN heap
    ELSE HeapAddEach(HeapAdd(heap, id, Head(items)), id, Tail(items))

\* PySet_Union that adds the items of the smaller set to the larger set itself.
HeapUnion_IntoSet2(heap, id1, id2, rank) ==
    LET swap == Cardinality(heap[id1]) > Cardinality(heap[id2])
        set1 == IF swap THEN id2 ELSE id1
        set2 == IF swap THEN id1 ELSE id2
    IN  [heap |-> HeapAddEach(heap, set2, PyIter(heap[set1], rank)), out |-> <<set2>>]

\* PySet_Union on objects: new is a copy of the larger set, the items of the
\* smaller one are added to new.
HeapUnion(heap, id1, id2, rank) ==
    LET swap == Cardinality(heap[id1]) > Cardinality(heap[id2])
        set1 == IF swap THEN id2 ELSE id1
        set2 == IF swap THEN id1 ELSE id2
        new == HeapNew(heap, heap[set2])
    IN  [heap |-> HeapAddEach(new.heap, new.id, PyIter(heap[set1], rank)), out |-> <<new.id>>]

\* PySet_Intersection on objects: new starts empty and gets the items of the
\* smaller set that the other set contains.
HeapIntersection(heap, id1, id2, rank) ==
    LET swap == Cardinality(heap[id1]) > Cardinality(heap[id2])
        set1 == IF swap THEN id2 ELSE id1
        set2 == IF swap THEN id1 ELSE id2
        new == HeapNew(heap, {})
        items == SelectSeq(PyIter(heap[set1], rank), LAMBDA item : item \in heap[set2])
    IN  [heap |-> HeapAddEach(new.heap, new.id, items), out |-> <<new.id>>]

\* PySet_Difference on objects: new starts empty and gets the items of set1
\* that set2 does not contain.
HeapDifference(heap, id1, id2, rank) ==
    LET new == HeapNew(heap, {})
        items == SelectSeq(PyIter(heap[id1], rank), LAMBDA item : item \notin heap[id2])
    IN  [heap |-> HeapAddEach(new.heap, new.id, items), out |-> <<new.id>>]

\* PySet_IsDisjoint and PySet_IsSubset call PySet_GET_SIZE, PyObject_GetIter,
\* PyIter_Next and PySet_Contains only: no object changes, none is returned.
HeapIsDisjoint(heap, id1, id2, rank) == [heap |-> heap, out |-> <<>>]
HeapIsSubset(heap, id1, id2, rank) == [heap |-> heap, out |-> <<>>]

RECURSIVE HeapSingletons(_, _, _)
\* The branch size == 1 of PySet_SubSets: a new set for every item.
HeapSingletons(heap, items, list) ==
    IF items = <<>> THEN [heap |-> heap, list |-> list]
    ELSE LET new == HeapNew(heap, {})
         IN  HeapSingletons(HeapAdd(new.heap, new.id, Head(items)), Tail(items),
                            Append(list, new.id))

\* PySet_SubSets that pops from the set it was given.
SubSetsCopy_SameObject(heap, set) == [heap |-> heap, id |-> set]

\* myset = PySet_New(set): the copy the outer loop pops from.
SubSetsCopy(heap, set) == HeapNew(heap, heap[set])

\* A pop that gives an item and leaves it in the set.
AfterPop_KeepsItem(set, rank) == set

\* What PySet_Pop leaves in the set.
AfterPop(set, rank) == set \ {PySet_Pop(set, rank)}

\* One activation of PySet_SubSets: its arguments, its locals and where it is:
\* at its first line, at the test of the outer loop, in the recursive call,
\* or behind the loop.
Frame(set, size) ==
    [set |-> set, size |-> size, myset |-> set, list |-> <<>>, item |-> NumElems + 1,
     pc |-> "entry"]

\* The inner while loop on objects: item is added to every set of
\* subset_list, the set is appended to list; then the test for the break.
AfterCall(heap, frame, subset_list) ==
    LET heap2 == [id \in DOMAIN heap |->
                    IF \E i \in DOMAIN subset_list : subset_list[i] = id
                    THEN heap[id] \cup {frame.item} ELSE heap[id]]
    IN  [heap |-> heap2,
         frame |-> [frame EXCEPT !.list = @ \o subset_list,
                                 !.pc = IF Cardinality(heap[frame.myset]) < frame.size
                                        THEN "exit" ELSE "loop"]]

----------------------------------------------------------------------------
(* The state *)

\* self is the object; phase is "new" after QBAFARelations_new, "live" once
\* the initializer has succeeded, "discarded" when construction failed and
\* "crashed" when the process has died.  call records the last call and what
\* it returned, pre the object as it was before that call.  reinits counts
\* the calls of the initializer on a live object, failures the calls during
\* which a CPython call failed.  alg is the application of a set function
\* and writer the call of add() or remove() that other threads interleave
\* with; both are described where they are defined.

Call(op, agent, patient, input, outcome) ==
    [op |-> op, agent |-> agent, patient |-> patient, input |-> input,
     outcome |-> outcome,
     \* the call repeats the previous, successful call
     repeat |-> /\ call.op = op /\ call.agent = agent /\ call.patient = patient
                /\ call.input = input /\ call.outcome = "ok",
     resBool |-> FALSE, resInt |-> 0, resList |-> <<>>, resSet |-> {},
               resObject |-> NoObject]

\* Most objects that occur in the sets of a list given to PyList_ContainsSubset.
ListElems == 2

RECURSIVE ListsOfLen(_)
\* The lists of n sets.
ListsOfLen(n) ==
    IF n = 0 THEN {<<>>}
    ELSE {Append(list, set) : list \in ListsOfLen(n - 1), set \in SUBSET (1..ListElems)}

Lists == UNION {ListsOfLen(n) : n \in 0..MaxLen}

\* alg is one application of a set function: fn and its arguments (set1,
\* set2, size, list; rank is the iteration order of the sets), done once the
\* function has returned, and what it returned.
AlgCall(fn, set1, set2, size, list, rank) ==
    [fn |-> fn, set1 |-> set1, set2 |-> set2, size |-> size, list |-> list,
     rank |-> rank, done |-> FALSE, resInt |-> 0, resSet |-> {}, resList |-> <<>>]

\* No set function is applied.
NoAlg == AlgCall("none", {}, {}, 0, <<>>, <<>>)

\* The functions of two sets.
BinaryFns == {"isDisjoint", "isSubset", "union", "intersection", "difference"}

\* The CPython calls of add() and of remove() in the order the handler makes
\* them; "none" stands for the return.
AddSteps == <<"pack", "contains", "relAdd", "apGet", "apAdd", "paGet", "paAdd", "none">>
RemoveSteps == <<"pack", "contains", "relDiscard", "apDiscard", "paDiscard", "none">>

\* writer is a call of add() or remove() that runs while other threads call
\* the object: op, agent and patient are the call, base is the store when
\* the call began and at the position in AddSteps or RemoveSteps of the
\* CPython call the handler is inside.
NoWriter == [op |-> "none", agent |-> NoEntity, patient |-> NoEntity,
             at |-> 0, base |-> NoObject]

\* What the handler has done when it is inside its CPython call f, or has
\* returned before making it: the handlers hold no lock, and the store
\* another thread reads at that moment is the one a failure of f would leave.
WriterAt(w, f) ==
    IF w.op = "add" THEN QBAFARelations_add(w.base, w.agent, w.patient, f)
    ELSE QBAFARelations_remove(w.base, w.agent, w.patient, f)

WriterSteps(w) == IF w.op = "add" THEN AddSteps ELSE RemoveSteps

\* A call of a set function on objects: two input objects in1 and in2 (they
\* may be one object), base the heap at the call, out the objects returned.
RunCall(fn, heap, in1, in2, size, rank) ==
    [fn |-> fn, heap |-> heap, base |-> heap, in1 |-> in1, in2 |-> in2, size |-> size,
     rank |-> rank, stack |-> IF fn = "kSubsets" THEN <<Frame(in1, size)>> ELSE <<>>,
     done |-> FALSE, out |-> <<>>]

NoRun == [RunCall("none", <<>>, 1, 1, 0, <<>>) EXCEPT !.done = TRUE]

Init ==
    /\ self = QBAFARelations_new("QBAFARelationsType").object
    /\ phase = "new"
    /\ call = [op |-> "new", agent |-> NoEntity, patient |-> NoEntity, input |-> NoInput,
               outcome |-> "ok", repeat |-> FALSE,
               resBool |-> FALSE, resInt |-> 0, resList |-> <<>>, resSet |-> {},
               resObject |-> NoObject]
    /\ pre = self
    /\ reinits = 0
    /\ failures = 0
    /\ alg = NoAlg
    /\ writer = NoWriter
    /\ run = NoRun

\* QBAFARelations(relations): tp_new, then tp_init on the new object.
Create ==
    /\ phase = "new"
    /\ \E input \in Inputs : \E order \in InitOrders(input) :
         LET r == QBAFARelations_init(self, input, order, "none", 0) IN
         /\ self' = r.store
         /\ phase' = IF r.outcome = "ok" THEN "live" ELSE "discarded"
         /\ call' = Call("create", NoEntity, NoEntity, input, r.outcome)
    /\ pre' = self
    /\ UNCHANGED <<reinits, failures, alg, writer, run>>

\* obj.__init__(relations) on an object that is already initialized.
Reinit ==
    /\ reinits < MaxReinits
    /\ phase = "live"
    /\ \E input \in Inputs : \E order \in InitOrders(input) :
         LET r == QBAFARelations_init(self, input, order, "none", 0) IN
         /\ self' = r.store
         /\ call' = Call("init", NoEntity, NoEntity, input, r.outcome)
    /\ pre' = self
    /\ UNCHANGED phase
    /\ reinits' = reinits + 1 /\ UNCHANGED <<failures, alg, writer, run>>

\* Construction during which a CPython call fails.
CreateFail ==
    /\ failures < MaxFailures
    /\ phase = "new"
    /\ \E input \in Inputs : \E order \in InitOrders(input) :
       \E f \in InitFailPoints : \E at \in 1..MaxLen :
         LET r == QBAFARelations_init(self, input, order, f, at) IN
         /\ r.outcome = "error"
         /\ self' = r.store
         /\ phase' = "discarded"
         /\ call' = Call("create", NoEntity, NoEntity, input, r.outcome)
    /\ pre' = self
    /\ failures' = failures + 1 /\ UNCHANGED <<reinits, alg, writer, run>>

Add ==
    /\ phase = "live"
    /\ \E agent \in Entities, patient \in Entities :
         LET r == QBAFARelations_add(self, agent, patient, "none") IN
         /\ self' = r.store
         /\ call' = Call("add", agent, patient, NoInput, r.outcome)
    /\ pre' = self
    /\ UNCHANGED phase
    /\ UNCHANGED <<reinits, failures, alg, writer, run>>

\* add() during which a CPython call fails.
AddFail ==
    /\ failures < MaxFailures
    /\ phase = "live"
    /\ \E agent \in Entities, patient \in Entities : \E f \in AddFailPoints :
         LET r == QBAFARelations_add(self, agent, patient, f) IN
         /\ r.outcome = "error"
         /\ self' = r.store
         /\ call' = Call("add", agent, patient, NoInput, r.outcome)
    /\ pre' = self
    /\ UNCHANGED phase
    /\ failures' = failures + 1 /\ UNCHANGED <<reinits, alg, writer, run>>

Remove ==
    /\ phase = "live"
    /\ \E agent \in Entities, patient \in Entities :
         LET r == QBAFARelations_remove(self, agent, patient, "none") IN
         /\ self' = r.store
         /\ call' = Call("remove", agent, patient, NoInput, r.outcome)
    /\ pre' = self
    /\ UNCHANGED phase
    /\ UNCHANGED <<reinits, failures, alg, writer, run>>

\* remove() during which a CPython call fails.
RemoveFail ==
    /\ failures < MaxFailures
    /\ phase = "live"
    /\ \E agent \in Entities, patient \in Entities : \E f \in RemoveFailPoints :
         LET r == QBAFARelations_remove(self, agent, patient, f) IN
         /\ r.outcome = "error"
         /\ self' = r.store
         /\ call' = Call("remove", agent, patient, NoInput, r.outcome)
    /\ pre' = self
    /\ UNCHANGED phase
    /\ failures' = failures + 1 /\ UNCHANGED <<reinits, alg, writer, run>>

Contains ==
    /\ phase = "live"
    /\ \E agent \in Entities, patient \in Entities :
         LET r == QBAFARelations_contains(self, agent, patient) IN
         call' = [Call("contains", agent, patient, NoInput, r.outcome)
                    EXCEPT !.resBool = r.value]
    /\ pre' = self
    /\ UNCHANGED <<self, phase>>
    /\ UNCHANGED <<reinits, failures, alg, writer, run>>

Size ==
    /\ phase = "live"
    /\ call' = [Call("size", NoEntity, NoEntity, NoInput, "ok")
                  EXCEPT !.resInt = QBAFARelations___len__(self)]
    /\ pre' = self
    /\ UNCHANGED <<self, phase>>
    /\ UNCHANGED <<reinits, failures, alg, writer, run>>

\* The list is filled in the iteration order of the bucket.
Patients ==
    /\ phase = "live"
    /\ \E agent \in Entities : \E list \in Orders(QBAFARelations_patients(self, agent)) :
         call' = [Call("patients", agent, NoEntity, NoInput, "ok") EXCEPT !.resList = list]
    /\ pre' = self
    /\ UNCHANGED <<self, phase>>
    /\ UNCHANGED <<reinits, failures, alg, writer, run>>

Agents ==
    /\ phase = "live"
    /\ \E patient \in Entities : \E list \in Orders(QBAFARelations_agents(self, patient)) :
         call' = [Call("agents", NoEntity, patient, NoInput, "ok") EXCEPT !.resList = list]
    /\ pre' = self
    /\ UNCHANGED <<self, phase>>
    /\ UNCHANGED <<reinits, failures, alg, writer, run>>

Copy ==
    /\ phase = "live"
    /\ LET r == QBAFARelations_copy(self) IN
         /\ call' = [Call("copy", NoEntity, NoEntity, NoInput, r.outcome)
                       EXCEPT !.resObject = r.object]
         /\ phase' = IF r.outcome = "crash" THEN "crashed" ELSE phase
    /\ pre' = self
    /\ UNCHANGED self
    /\ UNCHANGED <<reinits, failures, alg, writer, run>>

\* The applications of the set functions to the arguments drawn in InitSets.
IsDisjoint ==
    /\ alg.fn = "isDisjoint" /\ ~alg.done
    /\ alg' = [alg EXCEPT !.done = TRUE,
                          !.resInt = PySet_IsDisjoint(alg.set1, alg.set2, alg.rank)]
    /\ UNCHANGED <<self, phase, call, pre, reinits, failures, writer, run>>

IsSubset ==
    /\ alg.fn = "isSubset" /\ ~alg.done
    /\ alg' = [alg EXCEPT !.done = TRUE,
                          !.resInt = PySet_IsSubset(alg.set1, alg.set2, alg.rank)]
    /\ UNCHANGED <<self, phase, call, pre, reinits, failures, writer, run>>

Union ==
    /\ alg.fn = "union" /\ ~alg.done
    /\ alg' = [alg EXCEPT !.done = TRUE,
                          !.resSet = PySet_Union(alg.set1, alg.set2, alg.rank)]
    /\ UNCHANGED <<self, phase, call, pre, reinits, failures, writer, run>>

Intersection ==
    /\ alg.fn = "intersection" /\ ~alg.done
    /\ alg' = [alg EXCEPT !.done = TRUE,
                          !.resSet = PySet_Intersection(alg.set1, alg.set2, alg.rank)]
    /\ UNCHANGED <<self, phase, call, pre, reinits, failures, writer, run>>

Difference ==
    /\ alg.fn = "difference" /\ ~alg.done
    /\ alg' = [alg EXCEPT !.done = TRUE,
                          !.resSet = PySet_Difference(alg.set1, alg.set2, alg.rank)]
    /\ UNCHANGED <<self, phase, call, pre, reinits, failures, writer, run>>

KSubsets ==
    /\ alg.fn = "kSubsets" /\ ~alg.done
    /\ alg' = [alg EXCEPT !.done = TRUE,
                          !.resList = PySet_SubSets(alg.set1, alg.size, alg.rank)]
    /\ UNCHANGED <<self, phase, call, pre, reinits, failures, writer, run>>

ListContainsSubsetOf ==
    /\ alg.fn = "listContainsSubsetOf" /\ ~alg.done
    /\ alg' = [alg EXCEPT !.done = TRUE,
                          !.resInt = PyList_ContainsSubset(alg.list, alg.set2, alg.rank)]
    /\ UNCHANGED <<self, phase, call, pre, reinits, failures, writer, run>>

\* isDisjoint on objects, from its first line to its return.
RunIsDisjoint ==
    /\ run.fn = "isDisjoint" /\ ~run.done
    /\ LET r == HeapIsDisjoint(run.heap, run.in1, run.in2, run.rank) IN
         run' = [run EXCEPT !.heap = r.heap, !.out = r.out, !.done = TRUE]
    /\ UNCHANGED <<self, phase, call, pre, reinits, failures, alg, writer>>

\* isSubset on objects.
RunIsSubset ==
    /\ run.fn = "isSubset" /\ ~run.done
    /\ LET r == HeapIsSubset(run.heap, run.in1, run.in2, run.rank) IN
         run' = [run EXCEPT !.heap = r.heap, !.out = r.out, !.done = TRUE]
    /\ UNCHANGED <<self, phase, call, pre, reinits, failures, alg, writer>>

\* union on objects.
RunUnion ==
    /\ run.fn = "union" /\ ~run.done
    /\ LET r == HeapUnion(run.heap, run.in1, run.in2, run.rank) IN
         run' = [run EXCEPT !.heap = r.heap, !.out = r.out, !.done = TRUE]
    /\ UNCHANGED <<self, phase, call, pre, reinits, failures, alg, writer>>

\* intersection on objects.
RunIntersection ==
    /\ run.fn = "intersection" /\ ~run.done
    /\ LET r == HeapIntersection(run.heap, run.in1, run.in2, run.rank) IN
         run' = [run EXCEPT !.heap = r.heap, !.out = r.out, !.done = TRUE]
    /\ UNCHANGED <<self, phase, call, pre, reinits, failures, alg, writer>>

\* difference on objects.
RunDifference ==
    /\ run.fn = "difference" /\ ~run.done
    /\ LET r == HeapDifference(run.heap, run.in1, run.in2, run.rank) IN
         run' = [run EXCEPT !.heap = r.heap, !.out = r.out, !.done = TRUE]
    /\ UNCHANGED <<self, phase, call, pre, reinits, failures, alg, writer>>

Top == run.stack[Len(run.stack)]
Callers == SubSeq(run.stack, 1, Len(run.stack) - 1)

\* return list: the outermost activation hands the list to the caller of
\* kSubsets, any other to the activation that waits in the recursive call.
Return(heap, list) ==
    IF Len(run.stack) = 1
    THEN run' = [run EXCEPT !.heap = heap, !.stack = <<>>, !.out = list, !.done = TRUE]
    ELSE LET caller == run.stack[Len(run.stack) - 1]
             r == AfterCall(heap, caller, list)
         IN  run' = [run EXCEPT !.heap = r.heap,
                                !.stack = Append(SubSeq(run.stack, 1, Len(run.stack) - 2),
                                                 r.frame)]

\* PySet_SubSets returns from one of its first two branches that return: the
\* empty set, or size == 1.
SubSetsBase ==
    /\ run.fn = "kSubsets" /\ ~run.done
    /\ Top.pc = "entry"
    /\ Cardinality(run.heap[Top.set]) = 0 \/ Top.size = 1
    /\ IF Cardinality(run.heap[Top.set]) = 0
       THEN LET new == HeapNew(run.heap, {}) IN Return(new.heap, <<new.id>>)
       ELSE LET r == HeapSingletons(run.heap, PyIter(run.heap[Top.set], run.rank), <<>>)
            IN  Return(r.heap, r.list)
    /\ UNCHANGED <<self, phase, call, pre, reinits, failures, alg, writer>>

\* PySet_SubSets goes past its first branches: list is a new empty list and
\* myset a copy of set.
SubSetsCall ==
    /\ run.fn = "kSubsets" /\ ~run.done
    /\ Top.pc = "entry"
    /\ Cardinality(run.heap[Top.set]) # 0 /\ Top.size # 1
    /\ LET copy == SubSetsCopy(run.heap, Top.set) IN
         run' = [run EXCEPT !.heap = copy.heap,
                            !.stack = Append(Callers, [Top EXCEPT !.myset = copy.id,
                                                                  !.list = <<>>,
                                                                  !.pc = "loop"])]
    /\ UNCHANGED <<self, phase, call, pre, reinits, failures, alg, writer>>

\* One turn of the outer loop up to the recursive call: an item is popped
\* from myset and PySet_SubSets(myset, size-1) is entered.
SubSetsIterate ==
    /\ run.fn = "kSubsets" /\ ~run.done
    /\ Top.pc = "loop"
    /\ Cardinality(run.heap[Top.myset]) > 0
    /\ LET item == PySet_Pop(run.heap[Top.myset], run.rank) IN
         run' = [run EXCEPT
                   !.heap = [@ EXCEPT ![Top.myset] = AfterPop(@, run.rank)],
                   !.stack = Append(Callers, [Top EXCEPT !.item = item, !.pc = "call"])
                             \o <<Frame(Top.myset, Top.size - 1)>>]
    /\ UNCHANGED <<self, phase, call, pre, reinits, failures, alg, writer>>

\* The outer loop is left, by its test or by the break, and list is returned.
SubSetsExit ==
    /\ run.fn = "kSubsets" /\ ~run.done
    /\ \/ Top.pc = "loop" /\ Cardinality(run.heap[Top.myset]) = 0
       \/ Top.pc = "exit"
    /\ Return(run.heap, Top.list)
    /\ UNCHANGED <<self, phase, call, pre, reinits, failures, alg, writer>>

\* add() or remove() entered by a thread while other threads may read.
WriterBegin ==
    /\ phase = "live"
    /\ writer = NoWriter
    /\ \E op \in {"add", "remove"}, agent \in Entities, patient \in Entities :
         writer' = [op |-> op, agent |-> agent, patient |-> patient,
                    at |-> 1, base |-> self]
    /\ UNCHANGED <<self, phase, call, pre, reinits, failures, alg, run>>

\* The handler goes on to its next CPython call, or returns.
WriterStep ==
    /\ writer # NoWriter
    /\ LET f == WriterSteps(writer)[writer.at + 1]
           r == WriterAt(writer, f)
       IN  /\ self' = r.store
           /\ IF f = "none" \/ r.outcome = "ok"
              THEN /\ writer' = NoWriter
                   /\ call' = Call(writer.op, writer.agent, writer.patient, NoInput, r.outcome)
                   /\ pre' = writer.base
              ELSE /\ writer' = [writer EXCEPT !.at = @ + 1]
                   /\ UNCHANGED <<call, pre>>
    /\ UNCHANGED <<phase, reinits, failures, alg, run>>

\* The agent and the patient of a call one of which cannot be hashed.
UnhashableArgs ==
    {args \in (Entities \cup {Unhashable}) \X (Entities \cup {Unhashable}) :
        args[1] = Unhashable \/ args[2] = Unhashable}

\* add() with an agent or a patient that cannot be hashed.
AddUnhashable ==
    /\ phase = "live"
    /\ \E args \in UnhashableArgs :
         LET r == QBAFARelations_add(self, args[1], args[2], "none") IN
         /\ self' = r.store
         /\ call' = Call("add", args[1], args[2], NoInput, r.outcome)
    /\ pre' = self
    /\ UNCHANGED phase
    /\ UNCHANGED <<reinits, failures, alg, writer, run>>

\* remove() with an agent or a patient that cannot be hashed.
RemoveUnhashable ==
    /\ phase = "live"
    /\ \E args \in UnhashableArgs :
         LET r == QBAFARelations_remove(self, args[1], args[2], "none") IN
         /\ self' = r.store
         /\ call' = Call("remove", args[1], args[2], NoInput, r.outcome)
    /\ pre' = self
    /\ UNCHANGED phase
    /\ UNCHANGED <<reinits, failures, alg, writer, run>>

\* contains() with an agent or a patient that cannot be hashed.
ContainsUnhashable ==
    /\ phase = "live"
    /\ \E args \in UnhashableArgs :
         LET r == QBAFARelations_contains(self, args[1], args[2]) IN
         call' = [Call("contains", args[1], args[2], NoInput, r.outcome)
                    EXCEPT !.resBool = r.value]
    /\ pre' = self
    /\ UNCHANGED <<self, phase>>
    /\ UNCHANGED <<reinits, failures, alg, writer, run>>

\* obj.relations: the caller gets the set the getter returns.
GetRelations ==
    /\ phase = "live"
    /\ call' = [Call("relations", NoEntity, NoEntity, NoInput, "ok")
                  EXCEPT !.resSet = QBAFArgument_getrelations(self).value]
    /\ pre' = self
    /\ UNCHANGED <<self, phase>>
    /\ UNCHANGED <<reinits, failures, alg, writer, run>>

\* The caller adds a pair to the set it got from obj.relations, or takes
\* one out.  The store changes with it when the two are one object.
MutateGot ==
    /\ phase = "live"
    /\ call.op = "relations"
    /\ \E x \in Pairs :
         LET got == IF x \in call.resSet THEN call.resSet \ {x} ELSE call.resSet \cup {x} IN
         /\ call' = [Call("mutateGot", NoEntity, NoEntity, NoInput, "ok") EXCEPT !.resSet = got]
         /\ self' = IF QBAFArgument_getrelations(self).fresh THEN self
                    ELSE [self EXCEPT !.relations = got]
    /\ pre' = self
    /\ UNCHANGED phase
    /\ UNCHANGED <<reinits, failures, alg, writer, run>>

\* The caller adds an item to the list or the set it has created the store
\* from, or takes the last one out.
\* The store changes with it when its set is that object.
MutateInput ==
    /\ phase = "live"
    /\ call.op = "create"
    /\ call.input.kind \in {"list", "set"}
    /\ \E items \in {Append(call.input.items, x) :
                        x \in {y \in Items : Hashable(y)} \ Range(call.input.items)}
                   \cup {SubSeq(call.input.items, 1, Len(call.input.items) - 1)} :
         LET input == [call.input EXCEPT !.items = items] IN
         /\ items # call.input.items
         /\ call' = Call("mutateInput", NoEntity, NoEntity, input, "ok")
         /\ self' = IF InitRelationsObject(call.input).fresh THEN self
                    ELSE [self EXCEPT !.relations = Range(input.items)]
    /\ pre' = self
    /\ UNCHANGED phase
    /\ UNCHANGED <<reinits, failures, alg, writer, run>>

\* Construction and the calls of the public interface, no CPython failure.
Next ==
    \/ Create
    \/ Add
    \/ Remove
    \/ Contains
    \/ Size
    \/ Patients
    \/ Agents
    \/ Copy

Spec == Init /\ [][Next]_vars

\* The same, with the initializer called again on a live object.
NextReinit ==
    \/ Next
    \/ Reinit

SpecReinit == Init /\ [][NextReinit]_vars

\* The same as Spec, with CPython calls that fail inside a handler.
NextFail ==
    \/ Next
    \/ CreateFail
    \/ AddFail
    \/ RemoveFail

SpecFail == Init /\ [][NextFail]_vars

\* The same as Spec, with calls whose agent or patient cannot be hashed.
NextUnhashable ==
    \/ Next
    \/ AddUnhashable
    \/ RemoveUnhashable
    \/ ContainsUnhashable

SpecUnhashable == Init /\ [][NextUnhashable]_vars

\* The same as Spec, with a caller that changes the containers it holds.
NextAlias ==
    \/ Next
    \/ GetRelations
    \/ MutateGot
    \/ MutateInput

SpecAlias == Init /\ [][NextAlias]_vars

\* A thread inside add() or remove() while other threads call the queries.
NextConc ==
    \/ Create
    \/ WriterBegin
    \/ WriterStep
    \/ Contains
    \/ Size
    \/ Patients
    \/ Agents

SpecConc == Init /\ [][NextConc]_vars

\* One set function applied to arguments drawn from the bounded sets.
InitSets ==
    /\ self = QBAFARelations_new("QBAFARelationsType").object
    /\ phase = "new"
    /\ call = [op |-> "new", agent |-> NoEntity, patient |-> NoEntity, input |-> NoInput,
               outcome |-> "ok", repeat |-> FALSE,
               resBool |-> FALSE, resInt |-> 0, resList |-> <<>>, resSet |-> {},
               resObject |-> NoObject]
    /\ pre = self
    /\ reinits = 0
    /\ failures = 0
    /\ writer = NoWriter
    /\ run = NoRun
    /\ \/ \E fn \in BinaryFns, set1 \in SUBSET Elems, set2 \in SUBSET Elems, rank \in Ranks :
            alg = AlgCall(fn, set1, set2, 0, <<>>, rank)
       \/ \E set \in SUBSET Elems, size \in Sizes, rank \in Ranks :
            alg = AlgCall("kSubsets", set, {}, size, <<>>, rank)
       \/ \E list \in Lists, superset \in SUBSET Elems, rank \in Ranks :
            alg = AlgCall("listContainsSubsetOf", {}, superset, 0, list, rank)

NextSets ==
    \/ IsDisjoint
    \/ IsSubset
    \/ Union
    \/ Intersection
    \/ Difference
    \/ KSubsets
    \/ ListContainsSubsetOf

SpecSets == InitSets /\ [][NextSets]_vars

\* The set functions on objects: the inputs are one object or two, and a
\* call that has begun goes on to its next statement until it returns.
InitHeap ==
    /\ self = QBAFARelations_new("QBAFARelationsType").object
    /\ phase = "new"
    /\ call = [op |-> "new", agent |-> NoEntity, patient |-> NoEntity, input |-> NoInput,
               outcome |-> "ok", repeat |-> FALSE,
               resBool |-> FALSE, resInt |-> 0, resList |-> <<>>, resSet |-> {},
               resObject |-> NoObject]
    /\ pre = self
    /\ reinits = 0
    /\ failures = 0
    /\ writer = NoWriter
    /\ alg = NoAlg
    /\ \/ \E fn \in BinaryFns, set1 \in SUBSET Elems, set2 \in SUBSET Elems, rank \in Ranks :
            run = RunCall(fn, <<set1, set2>>, 1, 2, 0, rank)
       \/ \E fn \in BinaryFns, set \in SUBSET Elems, rank \in Ranks :
            run = RunCall(fn, <<set>>, 1, 1, 0, rank)
       \/ \E set \in SUBSET Elems, size \in Sizes, rank \in Ranks :
            run = RunCall("kSubsets", <<set>>, 1, 1, size, rank)

NextHeap ==
    \/ RunIsDisjoint
    \/ RunIsSubset
    \/ RunUnion
    \/ RunIntersection
    \/ RunDifference
    \/ SubSetsBase
    \/ SubSetsCall
    \/ SubSetsIterate
    \/ SubSetsExit

SpecHeap == InitHeap /\ [][NextHeap]_vars /\ WF_vars(NextHeap)


----------------------------------------------------------------------------
(* Properties *)

InRelations(s, a, p) == PyTuple_Pack(a, p) \in s.relations
InAgentPatients(s, a, p) == p \in Bucket(s.agent_patients, a)
InPatientAgents(s, a, p) == a \in Bucket(s.patient_agents, p)

\* Invariant 1 of the data model.
Invariant1(s) ==
    \A a \in Entities, p \in Entities :
        /\ InRelations(s, a, p) <=> InAgentPatients(s, a, p)
        /\ InRelations(s, a, p) <=> InPatientAgents(s, a, p)

\* Every pair other than (a, p) is where it was in pre, in all three structures.
OthersUntouched(s, old, a, p) ==
    \A x \in Entities, y \in Entities :
        <<x, y>> # <<a, p>> =>
            /\ InRelations(s, x, y) <=> InRelations(old, x, y)
            /\ InAgentPatients(s, x, y) <=> InAgentPatients(old, x, y)
            /\ InPatientAgents(s, x, y) <=> InPatientAgents(old, x, y)

NoDuplicates(seq) == \A i, j \in DOMAIN seq : seq[i] = seq[j] => i = j

\* C1: in every state reached by creating a store from a collection of pairs
\* and then applying successful add and remove calls, (a,p) is in relations
\* iff p is in agentPatients[a] iff a is in patientAgents[p].
C1_StructuresAgree == phase = "live" => Invariant1(self)

\* A remove that changed a store which still holds a pair afterwards.
C1_Witness ==
    /\ phase = "live" /\ call.op = "remove" /\ call.outcome = "ok"
    /\ self # pre /\ self.relations # {}
    /\ \E a \in Entities : a \in self.agent_patients.keys /\ self.agent_patients.val[a] = {}

\* C2: when a step inside add(agent, patient) or remove(agent, patient) fails,
\* the pair is afterwards in all three structures or in none of them, and
\* invariant 1 holds as it did before the call.
C2_FailedCallIsAtomic ==
    (call.op \in {"add", "remove"} /\ call.outcome = "error" /\ Invariant1(pre)) =>
        /\ InRelations(self, call.agent, call.patient)
             <=> InAgentPatients(self, call.agent, call.patient)
        /\ InRelations(self, call.agent, call.patient)
             <=> InPatientAgents(self, call.agent, call.patient)
        /\ Invariant1(self)

\* C3: a store created from a set or a list P, duplicates included, has as
\* its size the number of distinct pairs of P, contains every pair of P and
\* contains no pair that is not in P.
C3_CreateHoldsExactlyTheInput ==
    (call.op = "create" /\ call.outcome = "ok") =>
        /\ QBAFARelations___len__(self) = Cardinality(Range(call.input.items))
        /\ \A a \in Entities, p \in Entities :
             QBAFARelations_contains(self, a, p).value
               <=> \E i \in DOMAIN call.input.items : call.input.items[i] = PyTuple_Pack(a, p)

\* A store created from a list that holds the same pair twice.
C3_Witness ==
    /\ call.op = "create" /\ call.outcome = "ok" /\ phase = "live"
    /\ call.input.kind = "list" /\ Len(call.input.items) = 2
    /\ call.input.items[1] = call.input.items[2]
    /\ QBAFARelations___len__(self) = 1

\* C4: a successful add(a,p) of a pair that is not in the store makes
\* contains(a,p) true, raises size() by exactly 1, puts p in patients(a) and
\* a in agents(p), with both buckets present afterwards, and changes the
\* membership of no other pair in relations or in any bucket.
C4_AddInsertsOnePair ==
    (call.op = "add" /\ call.outcome = "ok"
       /\ ~InRelations(pre, call.agent, call.patient)) =>
        /\ QBAFARelations_contains(self, call.agent, call.patient).value
        /\ QBAFARelations___len__(self) = QBAFARelations___len__(pre) + 1
        /\ call.patient \in QBAFARelations_patients(self, call.agent)
        /\ call.agent \in QBAFARelations_agents(self, call.patient)
        /\ call.agent \in self.agent_patients.keys
        /\ call.patient \in self.patient_agents.keys
        /\ self.agent_patients.keys = pre.agent_patients.keys \cup {call.agent}
        /\ self.patient_agents.keys = pre.patient_agents.keys \cup {call.patient}
        /\ OthersUntouched(self, pre, call.agent, call.patient)

\* An add that created the agent's bucket and extended the patient's bucket.
C4_Witness ==
    /\ call.op = "add" /\ call.outcome = "ok"
    /\ ~InRelations(pre, call.agent, call.patient)
    /\ call.agent \notin pre.agent_patients.keys
    /\ call.patient \in pre.patient_agents.keys
    /\ Cardinality(self.patient_agents.val[call.patient]) = 2

\* C5: add(a,p) called again right after a successful add(a,p) returns
\* without an error and leaves relations, agentPatients and patientAgents,
\* and so size(), exactly as they were after the first add.
C5_AddIsIdempotent ==
    (call.op = "add" /\ call.repeat) =>
        /\ call.outcome = "ok"
        /\ self = pre
        /\ QBAFARelations___len__(self) = QBAFARelations___len__(pre)

\* The second of two equal add calls, on a store holding another pair too.
C5_Witness ==
    /\ call.op = "add" /\ call.repeat /\ call.outcome = "ok"
    /\ InRelations(self, call.agent, call.patient)
    /\ QBAFARelations___len__(self) >= 2

\* C6: remove(a,p) of a pair that is not in the store succeeds and leaves
\* relations, agentPatients and patientAgents unchanged, also when a or p
\* occurs in other pairs of the store.
C6_RemoveAbsentChangesNothing ==
    (call.op = "remove" /\ ~InRelations(pre, call.agent, call.patient)) =>
        /\ call.outcome = "ok"
        /\ self = pre

\* remove of an absent pair whose agent and patient occur in other pairs.
C6_Witness ==
    /\ call.op = "remove" /\ call.outcome = "ok"
    /\ ~InRelations(pre, call.agent, call.patient)
    /\ \E y \in Entities : InRelations(pre, call.agent, y)
    /\ \E x \in Entities : InRelations(pre, x, call.patient)

\* C7: a successful remove(a,p) of a pair that is in the store makes
\* contains(a,p) false, lowers size() by exactly 1, takes p out of patients(a)
\* and a out of agents(p), and leaves every other pair and every other bucket
\* member in place; after create([(a1,p1),(a2,p1)]) and remove(a1,p1), size()
\* is 1 and agents(p1) is [a2].
C7_RemoveDeletesOnePair ==
    (call.op = "remove" /\ call.outcome = "ok"
       /\ InRelations(pre, call.agent, call.patient)) =>
        /\ ~QBAFARelations_contains(self, call.agent, call.patient).value
        /\ QBAFARelations___len__(self) = QBAFARelations___len__(pre) - 1
        /\ call.patient \notin QBAFARelations_patients(self, call.agent)
        /\ call.agent \notin QBAFARelations_agents(self, call.patient)
        /\ OthersUntouched(self, pre, call.agent, call.patient)
        /\ (/\ pre.relations = {PyTuple_Pack(1, 1), PyTuple_Pack(2, 1)}
            /\ call.agent = 1 /\ call.patient = 1)
           => /\ QBAFARelations___len__(self) = 1
              /\ QBAFARelations_agents(self, 1) = {2}

\* The scenario: (a1,p1) removed from the store {(a1,p1), (a2,p1)}.
C7_Witness ==
    /\ call.op = "remove" /\ call.outcome = "ok"
    /\ call.agent = 1 /\ call.patient = 1
    /\ pre.relations = {PyTuple_Pack(1, 1), PyTuple_Pack(2, 1)}
    /\ self.relations = {PyTuple_Pack(2, 1)}

C9_CopyReturnsEqualStore ==
    call.op = "copy" =>
        /\ call.outcome = "ok"
        /\ QBAFARelations___len__(call.resObject) = QBAFARelations___len__(self)
        /\ \A a \in Entities, p \in Entities :
             QBAFARelations_contains(call.resObject, a, p).value
               = QBAFARelations_contains(self, a, p).value

\* C10: when the collection given to create or to the initializer holds an
\* element that is not a 2-element pair, the call fails with TypeError and
\* relations, agentPatients and patientAgents of the target, a store the
\* caller holds, are exactly what they were before the call.
C10_FailedInitRetainsNothing ==
    (/\ call.op \in {"create", "init"}
     /\ phase = "live"
     /\ \E i \in DOMAIN call.input.items : ~IsPair(call.input.items[i])) =>
        /\ call.outcome = "TypeError"
        /\ self = pre

\* C11: when add() or remove() runs interleaved with a reader (contains,
\* patients, agents, size), the reader never observes the pair in relations
\* but missing from agentPatients[agent] or patientAgents[patient], or in a
\* bucket but missing from relations.
C11_ReaderSeesNoIntermediateState ==
    (call.op \in {"contains", "patients", "agents", "size"} /\ writer # NoWriter) =>
        /\ InRelations(self, writer.agent, writer.patient)
             <=> InAgentPatients(self, writer.agent, writer.patient)
        /\ InRelations(self, writer.agent, writer.patient)
             <=> InPatientAgents(self, writer.agent, writer.patient)

\* The references to e held by the containers of the store: one for each
\* position of e in a pair tuple of relations, one for each bucket key and
\* one for each bucket member.
Held(s, e) ==
    Cardinality({tuple \in s.relations : IsPair(tuple) /\ tuple.elems[1] = e})
    + Cardinality({tuple \in s.relations : IsPair(tuple) /\ tuple.elems[2] = e})
    + HeldDirect(s, e)

\* The change the last call made to the reference count of e.
RefChange(e, pinned) ==
    IF call.op = "contains" THEN ContainsRefs(pre, call.agent, call.patient)[e]
    ELSE IF call.op = "add" THEN AddRefs(pre, call.agent, call.patient, "none")[e]
    ELSE IF call.op = "remove"
         THEN RemoveRefs(pre, call.agent, call.patient, "none", pinned)[e]
    ELSE IF call.op = "patients" THEN ListRefs(pre, call.agent)[e]
    ELSE IF call.op = "agents" THEN ListRefs(pre, call.patient)[e]
    ELSE 0

\* C12: entity reference counts are balanced: each call of contains, add,
\* remove, patients and agents changes the reference count of every entity
\* by exactly the change in the number of references held by the store's
\* containers (pair tuples, bucket keys, bucket members), so that after any
\* sequence of such calls the count exceeds its value before the store
\* existed by that number, and destroying the store returns it to it.
C12_ReferencesBalanced ==
    call.op \in {"contains", "add", "remove", "patients", "agents"} =>
        \A e \in Entities, pinned \in BOOLEAN :
            RefChange(e, pinned) = Held(self, e) - Held(pre, e)

\* C13: isDisjoint is symmetric and exact: for all sets A and B of any sizes,
\* empty and equal ones included, isDisjoint(A,B) = isDisjoint(B,A), and it
\* is true iff intersection(A,B) is empty; isDisjoint({x},{y}) is true for
\* distinct x and y, and isDisjoint({x},{x}) is false.
C13_IsDisjointSymmetricExact ==
    (alg.fn = "isDisjoint" /\ alg.done) =>
        /\ alg.resInt \in {0, 1}
        /\ alg.resInt = PySet_IsDisjoint(alg.set2, alg.set1, alg.rank)
        /\ (alg.resInt = 1) <=> (PySet_Intersection(alg.set1, alg.set2, alg.rank) = {})
        /\ (alg.resInt = 1) <=> (alg.set1 \cap alg.set2 = {})
        /\ (alg.set1 = {1} /\ alg.set2 = {2}) => alg.resInt = 1
        /\ (alg.set1 = {1} /\ alg.set2 = {1}) => alg.resInt = 0

\* The larger set given first, with an item in common and one not.
C13_Witness ==
    /\ alg.fn = "isDisjoint" /\ alg.done /\ alg.resInt = 0
    /\ Cardinality(alg.set1) > Cardinality(alg.set2)
    /\ alg.set1 \ alg.set2 # {}
    /\ alg.set1 # Elems

\* C14: for all sets A and B, union(A,B) holds exactly the items in A or in
\* B, intersection(A,B) exactly the items in both, difference(A,B) exactly
\* the items of A that are not in B; swapping the arguments so that the
\* smaller set is iterated never changes the result.
C14_SetOperationsExact ==
    /\ (alg.fn = "union" /\ alg.done) =>
         /\ alg.resSet = alg.set1 \cup alg.set2
         /\ alg.resSet = PySet_Union(alg.set2, alg.set1, alg.rank)
         /\ (alg.set1 = {1, 2} /\ alg.set2 = {2, 3}) => alg.resSet = {1, 2, 3}
    /\ (alg.fn = "intersection" /\ alg.done) =>
         /\ alg.resSet = alg.set1 \cap alg.set2
         /\ alg.resSet = PySet_Intersection(alg.set2, alg.set1, alg.rank)
         /\ (alg.set1 = {1, 2} /\ alg.set2 = {2, 3}) => alg.resSet = {2}
    /\ (alg.fn = "difference" /\ alg.done) =>
         /\ alg.resSet = alg.set1 \ alg.set2
         /\ (alg.set1 = {1, 2} /\ alg.set2 = {2, 3}) => alg.resSet = {1}

\* A union whose arguments are swapped: the larger set first, the smaller
\* set holding an item the larger lacks.
C14_Witness ==
    /\ alg.fn = "union" /\ alg.done
    /\ Cardinality(alg.set1) > Cardinality(alg.set2)
    /\ alg.set2 \ alg.set1 # {}
    /\ alg.resSet = Elems

\* C15: for a non-empty set S and 1 <= k <= |S|, every set of kSubsets(S,k)
\* has exactly k items and is a subset of S.
C15_SubsetsHaveSizeK ==
    (alg.fn = "kSubsets" /\ alg.done /\ alg.set1 # {}
       /\ 1 <= alg.size /\ alg.size <= Cardinality(alg.set1)) =>
        \A i \in DOMAIN alg.resList :
            /\ Cardinality(alg.resList[i]) = alg.size
            /\ alg.resList[i] \subseteq alg.set1

\* The subsets of size 2 of a set of 3 items.
C15_Witness ==
    /\ alg.fn = "kSubsets" /\ alg.done
    /\ Cardinality(alg.set1) = 3 /\ alg.size = 2
    /\ Len(alg.resList) = 3

RECURSIVE Binomial(_, _)
\* The number of subsets of size k of a set of n items.
Binomial(n, k) ==
    IF k = 0 THEN 1
    ELSE IF n = 0 THEN 0
    ELSE Binomial(n - 1, k - 1) + Binomial(n - 1, k)

\* C16: for 0 <= k <= |S|, k = 0 included, kSubsets(S,k) returns C(|S|,k)
\* sets and the sets are pairwise distinct.
C16_SubsetsCountIsBinomial ==
    (alg.fn = "kSubsets" /\ alg.done
       /\ 0 <= alg.size /\ alg.size <= Cardinality(alg.set1)) =>
        /\ Len(alg.resList) = Binomial(Cardinality(alg.set1), alg.size)
        /\ NoDuplicates(alg.resList)

C18_IsSubsetExact ==
    (alg.fn = "isSubset" /\ alg.done) =>
        /\ alg.resInt \in {0, 1}
        /\ (alg.resInt = 1) <=> (\A x \in alg.set1 : x \in alg.set2)
        /\ alg.set1 = {} => alg.resInt = 1
        /\ (alg.set1 # {} /\ alg.set2 = {}) => alg.resInt = 0

\* A set of two items whose first item is in the second set, the other not.
C18_Witness ==
    /\ alg.fn = "isSubset" /\ alg.done /\ alg.resInt = 0
    /\ Cardinality(alg.set1) = 2
    /\ PySet_Pop(alg.set1, alg.rank) \in alg.set2

\* C19: listContainsSubsetOf(L,T) is true iff at least one set of L is a
\* subset of T; it is false for the empty list and true whenever L holds
\* the empty set.
C19_ListContainsSubsetExact ==
    (alg.fn = "listContainsSubsetOf" /\ alg.done) =>
        /\ alg.resInt \in {0, 1}
        /\ (alg.resInt = 1) <=> (\E i \in DOMAIN alg.list : alg.list[i] \subseteq alg.set2)
        /\ alg.list = <<>> => alg.resInt = 0
        /\ (\E i \in DOMAIN alg.list : alg.list[i] = {}) => alg.resInt = 1

\* A list whose second set only is a subset of T.
C19_Witness ==
    /\ alg.fn = "listContainsSubsetOf" /\ alg.done /\ alg.resInt = 1
    /\ Len(alg.list) = 2
    /\ ~(alg.list[1] \subseteq alg.set2)
    /\ alg.list[2] \subseteq alg.set2 /\ alg.list[2] # {}

\* C20: whenever the initializer completes successfully on a store, a store
\* that already holds pairs included, relations is the de-duplicated input
\* collection and agentPatients and patientAgents hold exactly the entries
\* derived from that collection: invariant 1 holds, and patients() and
\* agents() report nothing from the earlier contents.
C20_InitHoldsExactlyTheInput ==
    (call.op \in {"create", "init"} /\ call.outcome = "ok") =>
        /\ self.relations = Range(call.input.items)
        /\ Invariant1(self)
        /\ \A a \in Entities :
             QBAFARelations_patients(self, a)
               = {p \in Entities : PyTuple_Pack(a, p) \in Range(call.input.items)}
        /\ \A p \in Entities :
             QBAFARelations_agents(self, p)
               = {a \in Entities : PyTuple_Pack(a, p) \in Range(call.input.items)}

\* C21: remove never deletes an index bucket: a key that is present in
\* agentPatients or patientAgents is present in every later state under any
\* sequence of add and remove, possibly mapped to an empty set; and a key
\* only appears as the agent (respectively patient) of a pair that create
\* or add has just inserted.
C21_BucketsAreNeverDeleted ==
    [][/\ self.agent_patients.keys \subseteq self'.agent_patients.keys
       /\ self.patient_agents.keys \subseteq self'.patient_agents.keys
       /\ \A k \in self'.agent_patients.keys \ self.agent_patients.keys :
            /\ call'.op \in {"create", "add"}
            /\ call'.op = "add" => call'.agent = k
            /\ \E p \in Entities :
                 /\ InRelations(self', k, p) /\ ~InRelations(self, k, p)
                 /\ call'.op = "add" => call'.patient = p
       /\ \A k \in self'.patient_agents.keys \ self.patient_agents.keys :
            /\ call'.op \in {"create", "add"}
            /\ call'.op = "add" => call'.patient = k
            /\ \E a \in Entities :
                 /\ InRelations(self', a, k) /\ ~InRelations(self, a, k)
                 /\ call'.op = "add" => call'.agent = a]_vars

\* Every pair removed from a store that add had extended: all the keys are
\* still there, mapped to empty sets.
C21_Witness ==
    /\ phase = "live" /\ call.op = "remove" /\ call.outcome = "ok"
    /\ self.relations = {}
    /\ self.agent_patients.keys = Entities
    /\ self.patient_agents.keys = Entities
    /\ \A k \in Entities : self.agent_patients.val[k] = {} /\ self.patient_agents.val[k] = {}

\* C23: for every non-empty set S and every k >= 1, k > |S| included,
\* kSubsets(S,k) returns only sets with exactly k items; when k > |S| no
\* set of fewer than k items is returned.
C23_SubsetsHaveSizeKForLargeK ==
    (alg.fn = "kSubsets" /\ alg.done /\ alg.set1 # {} /\ alg.size >= 1) =>
        \A i \in DOMAIN alg.resList : Cardinality(alg.resList[i]) = alg.size

\* C24: for every set S and every k <= 0, kSubsets(S,k) returns a list
\* holding exactly one set, the empty set.
C24_SubsetsForNonPositiveK ==
    (alg.fn = "kSubsets" /\ alg.done /\ alg.size <= 0) => alg.resList = <<{}>>

\* The store after remove(agent, patient) undoes the add that has just run.
AfterRemove == QBAFARelations_remove(self, call.agent, call.patient, "none")

\* C28: add followed by remove is a round trip on what the queries observe:
\* for every store and every pair (a,p) not in it, after add(a,p) and then
\* remove(a,p) size(), contains(x,y) for all pairs, patients(x) and
\* agents(y) for all entities have the values they had before the add; only
\* an empty bucket may remain in the indices.
C28_AddThenRemoveRoundTrip ==
    (call.op = "add" /\ call.outcome = "ok"
       /\ ~InRelations(pre, call.agent, call.patient)) =>
        /\ AfterRemove.outcome = "ok"
        /\ QBAFARelations___len__(AfterRemove.store) = QBAFARelations___len__(pre)
        /\ \A x \in Entities, y \in Entities :
             QBAFARelations_contains(AfterRemove.store, x, y)
               = QBAFARelations_contains(pre, x, y)
        /\ \A x \in Entities :
             QBAFARelations_patients(AfterRemove.store, x) = QBAFARelations_patients(pre, x)
        /\ \A y \in Entities :
             QBAFARelations_agents(AfterRemove.store, y) = QBAFARelations_agents(pre, y)
        /\ \A k \in AfterRemove.store.agent_patients.keys \ pre.agent_patients.keys :
             k = call.agent /\ AfterRemove.store.agent_patients.val[k] = {}
        /\ \A k \in AfterRemove.store.patient_agents.keys \ pre.patient_agents.keys :
             k = call.patient /\ AfterRemove.store.patient_agents.val[k] = {}

\* An add that created the agent's bucket in a store holding another pair
\* with the same patient; the remove leaves that bucket behind, empty.
C28_Witness ==
    /\ call.op = "add" /\ call.outcome = "ok"
    /\ ~InRelations(pre, call.agent, call.patient)
    /\ call.agent \notin pre.agent_patients.keys
    /\ pre.patient_agents.val[call.patient] # {}
    /\ AfterRemove.outcome = "ok"
    /\ call.agent \in AfterRemove.store.agent_patients.keys
    /\ AfterRemove.store # pre
    /\ AfterRemove.store.relations = pre.relations

\* C22: when add, remove or contains is called with an agent or a patient
\* that cannot be hashed, the call fails with the error of the hash
\* function, and relations, agentPatients and patientAgents are unchanged.
C22_UnhashableArgumentFails ==
    (/\ call.op \in {"add", "remove", "contains"}
     /\ (call.agent = Unhashable \/ call.patient = Unhashable)) =>
        /\ call.outcome = "TypeError"
        /\ self = pre

\* contains() with an agent that cannot be hashed, on a store holding pairs.
C22_Witness ==
    /\ call.op = "contains" /\ call.agent = Unhashable /\ call.patient \in Entities
    /\ call.outcome = "TypeError"
    /\ self.relations # {} /\ self = pre

\* C27: the pair set of the store is never aliased with a container the
\* caller can see: changing the collection that was passed to create, or
\* the set returned by the attribute relations, changes neither size(),
\* contains(), patients() nor agents() of the store.
C27_StoreIsNotAliased ==
    call.op \in {"mutateInput", "mutateGot"} =>
        /\ QBAFARelations___len__(self) = QBAFARelations___len__(pre)
        /\ \A a \in Entities, p \in Entities :
             QBAFARelations_contains(self, a, p) = QBAFARelations_contains(pre, a, p)
        /\ \A a \in Entities :
             QBAFARelations_patients(self, a) = QBAFARelations_patients(pre, a)
        /\ \A p \in Entities :
             QBAFARelations_agents(self, p) = QBAFARelations_agents(pre, p)

\* The caller has emptied the set it got from a store that holds a pair.
C27_Witness ==
    /\ call.op = "mutateGot" /\ call.resSet = {}
    /\ self.relations # {} /\ self = pre

\* The sets a list of objects holds.
Values(heap, list) == [i \in DOMAIN list |-> heap[list[i]]]

\* The functions on objects return what the functions on values compute.
RunAgreesWithValues ==
    run.done /\ run.fn # "none" =>
        LET set1 == run.base[run.in1]
            set2 == run.base[run.in2]
            out == Values(run.heap, run.out)
        IN  /\ run.fn = "union" => out = <<PySet_Union(set1, set2, run.rank)>>
            /\ run.fn = "intersection" => out = <<PySet_Intersection(set1, set2, run.rank)>>
            /\ run.fn = "difference" => out = <<PySet_Difference(set1, set2, run.rank)>>
            /\ run.fn = "kSubsets" => out = PySet_SubSets(set1, run.size, run.rank)

\* One activation of PySet_SubSets has called the next.
IsCall == Len(run'.stack) = Len(run.stack) + 1

\* C25: kSubsets(S, k) terminates for every finite S and every integer k,
\* k <= 0 and k > |S| included: every recursive call is on a working set
\* strictly smaller than the set of the calling activation, and every turn of
\* the loop takes one item out of the working set.
C25_KSubsetsTerminates ==
    /\ (run.fn = "kSubsets") ~> run.done
    /\ [][IsCall =>
            LET caller == run.stack[Len(run.stack)]
                callee == run'.stack[Len(run'.stack)]
            IN  /\ Cardinality(run'.heap[callee.set]) < Cardinality(run.heap[caller.set])
                /\ Cardinality(run'.heap[caller.myset])
                     = Cardinality(run.heap[caller.myset]) - 1]_vars

\* kSubsets has returned for a set of two items or more and a size that is
\* not positive, after calls of PySet_SubSets at three levels or more.
C25_Witness ==
    /\ run.fn = "kSubsets" /\ run.done
    /\ run.size <= 0 /\ Cardinality(run.base[run.in1]) >= 2
    /\ Len(run.out) >= 2

\* C26: the set functions do not modify their inputs: when isDisjoint,
\* isSubset, union, intersection, difference or kSubsets has returned, every
\* input set has the items it had before the call, and the set returned, or
\* each subset returned, is a new object and none of the inputs.
C26_InputsUnchangedResultsNew ==
    run.done /\ run.fn # "none" =>
        /\ run.heap[run.in1] = run.base[run.in1]
        /\ run.heap[run.in2] = run.base[run.in2]
        /\ \A i \in DOMAIN run.out :
             /\ run.out[i] \notin {run.in1, run.in2}
             /\ run.out[i] \notin DOMAIN run.base

\* kSubsets has returned one subset of two items for a set of two items,
\* after it has popped both from its working set.
C26_Witness ==
    /\ run.fn = "kSubsets" /\ run.done
    /\ run.size = 2 /\ Cardinality(run.base[run.in1]) = 2
    /\ Len(run.out) = 1 /\ run.heap[run.out[1]] = run.base[run.in1]

====
